---------------------------- MODULE Spec2Model ----------------------------
(***************************************************************************)
(* Model of sync_time_precise.py: the serial port resolver                 *)
(* (find_arduino_port), the boundary-aligned sync session                  *)
(* (sync_precise_time_to_arduino) and the command line driver (main).      *)
(*                                                                         *)
(* Text is modelled as TLA+ strings, one character per byte.  The host     *)
(* wall clock is modelled in ticks of TickUs microseconds counted from     *)
(* midnight of the day on which the tool is started.                       *)
(***************************************************************************)
EXTENDS Integers, Sequences, FiniteSets, TLC

VARIABLES
    pc,                    \* position of the program
    args,                  \* parsed command line: list_ports, port, timeout
    ports,                 \* last result of serial.tools.list_ports.comports()
    port,                  \* main's local `port` (None until resolved)
    base,                  \* proleptic Gregorian ordinal of the start day
    clock,                 \* host wall clock, ticks since midnight of `base`
    ser,                   \* the serial.Serial object: "none", "open", "closed"
    rx,                    \* bytes lines waiting in the input buffer
    tx,                    \* commands written to the device
    emitted,               \* whether the device has emitted anything yet
    sync_time,             \* local sync_time (None until sampled)
    response_timeout,      \* local response_timeout, in ticks
    confirmation_timeout,  \* local confirmation_timeout, in ticks
    line,                  \* local `line` (None until a line is decoded)
    confirmation,          \* local `confirmation`
    outcome,               \* which exit path of the session was taken
    result,                \* return value of sync_precise_time_to_arduino
    status,                \* process exit status (None while running)
    listed,                \* lines printed by list_serial_ports
    stale                  \* lines in rx emitted before the command was written

vars == << pc, args, ports, port, base, clock, ser, rx, tx, emitted, sync_time,
           response_timeout, confirmation_timeout, line, confirmation,
           outcome, result, status, listed, stale >>

None == "None"

(***************************************************************************)
(* Bounds of the model.                                                    *)
(***************************************************************************)
MaxLag == 1            \* extra ticks a step or a sleep may take
MaxTimeout == 1        \* largest --timeout value explored, in seconds
MaxBuffered == 1       \* lines the input buffer holds at a time
MaxHeldSeconds == 1    \* whole seconds followed during the boundary wait

(***************************************************************************)
(* Program constants.                                                      *)
(***************************************************************************)
NearBoundaryUs == 900000   \* if microseconds >= 900000
BoundaryUs == 100000       \* while ....microsecond > 100000
SettleSeconds == 2         \* time.sleep(2)
EchoSeconds == 2           \* confirmation_timeout = time.time() + 2
CompensationSeconds == 1   \* datetime.timedelta(seconds=1)
MAXYEAR == 9999            \* datetime.MAXYEAR

UsPerSecond == 1000 * 1000
TickUs == BoundaryUs                   \* clock resolution of the model
TicksPerSecond == UsPerSecond \div TickUs
SecondsPerDay == 24 * 3600
PollSleepTicks == 100000 \div TickUs    \* time.sleep(0.1)
TightSleepTicks == 1000 \div TickUs     \* time.sleep(0.001): below one tick

(***************************************************************************)
(* str methods used by the program.                                        *)
(***************************************************************************)
\* s.startswith(p)
StartsWith(s, p) == Len(s) >= Len(p) /\ SubSeq(s, 1, Len(p)) = p

\* p in s
Contains(s, p) ==
    \E i \in 1..(Len(s) - Len(p) + 1) : SubSeq(s, i, i + Len(p) - 1) = p

Whitespace == {" ", "\t", "\n", "\r"}

RECURSIVE LStrip(_)
LStrip(s) ==
    IF Len(s) > 0 /\ SubSeq(s, 1, 1) \in Whitespace
    THEN LStrip(SubSeq(s, 2, Len(s)))
    ELSE s

RECURSIVE RStrip(_)
RStrip(s) ==
    IF Len(s) > 0 /\ SubSeq(s, Len(s), Len(s)) \in Whitespace
    THEN RStrip(SubSeq(s, 1, Len(s) - 1))
    ELSE s

\* s.strip()
Strip(s) == RStrip(LStrip(s))

Lower == "abcdefghijklmnopqrstuvwxyz"
Upper == "ABCDEFGHIJKLMNOPQRSTUVWXYZ"

UpperChar(c) ==
    IF \E i \in 1..Len(Lower) : SubSeq(Lower, i, i) = c
    THEN LET i == CHOOSE k \in 1..Len(Lower) : SubSeq(Lower, k, k) = c
         IN  SubSeq(Upper, i, i)
    ELSE c

\* s.upper()
RECURSIVE ToUpper(_)
ToUpper(s) ==
    IF Len(s) = 0 THEN ""
    ELSE UpperChar(SubSeq(s, 1, 1)) \o ToUpper(SubSeq(s, 2, Len(s)))

\* The byte 0xFF, which is not valid UTF-8, is written "^".
InvalidByte == "^"

\* bytes.decode(): the text, or a UnicodeDecodeError
Decodable(b) == ~Contains(b, InvalidByte)

Digits == "0123456789"

\* str(n) and format(n, "d") for n >= 0
RECURSIVE Dec(_)
Dec(n) ==
    IF n < 10 THEN SubSeq(Digits, n + 1, n + 1)
    ELSE Dec(n \div 10) \o SubSeq(Digits, (n % 10) + 1, (n % 10) + 1)

\* format(n, "02d")
NoPad2(n) == Dec(n)
Pad2(n) == IF Len(Dec(n)) < 2 THEN "0" \o Dec(n) ELSE Dec(n)

(***************************************************************************)
(* datetime: the proleptic Gregorian calendar arithmetic behind            *)
(* datetime.now(datetime.UTC) and sync_time + timedelta(seconds=1).        *)
(***************************************************************************)
IsLeap(y) == y % 4 = 0 /\ (y % 100 # 0 \/ y % 400 = 0)

DAYS_IN_MONTH == << 31, 28, 31, 30, 31, 30, 31, 31, 30, 31, 30, 31 >>
DAYS_BEFORE_MONTH == << 0, 31, 59, 90, 120, 151, 181, 212, 243, 273, 304, 334 >>

DaysInMonth(y, m) == IF m = 2 /\ IsLeap(y) THEN 29 ELSE DAYS_IN_MONTH[m]

DaysBeforeYear(y) ==
    (y - 1) * 365 + (y - 1) \div 4 - (y - 1) \div 100 + (y - 1) \div 400

DaysBeforeMonth(y, m) ==
    DAYS_BEFORE_MONTH[m] + (IF m > 2 /\ IsLeap(y) THEN 1 ELSE 0)

\* date.toordinal()
Ymd2Ord(y, m, d) == DaysBeforeYear(y) + DaysBeforeMonth(y, m) + d

MAXORDINAL == Ymd2Ord(MAXYEAR, 12, 31)

\* date.fromordinal(n)
Ord2Ymd(ord) ==
    LET n0   == ord - 1
        n400 == n0 \div 146097
        r400 == n0 % 146097
        n100 == r400 \div 36524
        r100 == r400 % 36524
        n4   == r100 \div 1461
        r4   == r100 % 1461
        n1   == r4 \div 365
        n    == r4 % 365
        year == n400 * 400 + 1 + n100 * 100 + n4 * 4 + n1
        leap == n1 = 3 /\ (n4 # 24 \/ n100 = 3)
        mon0 == (n + 50) \div 32
        pre0 == DAYS_BEFORE_MONTH[mon0] + (IF mon0 > 2 /\ leap THEN 1 ELSE 0)
        month == IF pre0 > n THEN mon0 - 1 ELSE mon0
        pre  == IF pre0 > n
                THEN pre0 - (DAYS_IN_MONTH[month]
                             + (IF month = 2 /\ leap THEN 1 ELSE 0))
                ELSE pre0
    IN  IF n1 = 4 \/ n100 = 4
        THEN [year |-> year - 1, month |-> 12, day |-> 31]
        ELSE [year |-> year, month |-> month, day |-> n - pre + 1]

DateTime(ord, sod, us) ==
    LET ymd == Ord2Ymd(ord)
    IN  [year |-> ymd.year, month |-> ymd.month, day |-> ymd.day,
         hour |-> sod \div 3600, minute |-> (sod % 3600) \div 60,
         second |-> sod % 60, microsecond |-> us]

\* datetime.datetime.now(datetime.UTC) with the wall clock at tick t
Now(b, t) ==
    LET secs == t \div TicksPerSecond
    IN  DateTime(b + secs \div SecondsPerDay, secs % SecondsPerDay,
                 (t % TicksPerSecond) * TickUs)

\* time.time() with the wall clock at tick t, in ticks
Time(t) == t

\* dt + datetime.timedelta(seconds=s): << the sum >>, or << >> for the
\* OverflowError "date value out of range"
PlusSeconds(dt, s) ==
    LET total == dt.hour * 3600 + dt.minute * 60 + dt.second + s
        days  == Ymd2Ord(dt.year, dt.month, dt.day) + total \div SecondsPerDay
    IN  IF 0 < days /\ days <= MAXORDINAL
        THEN << DateTime(days, total % SecondsPerDay, dt.microsecond) >>
        ELSE << >>

\* The same sum with the compensation forgotten.
PlusNothing(dt) == << dt >>
Compensate(dt) == PlusSeconds(dt, CompensationSeconds)

\* f"SYNC_TIME:{year},{month:02d},{day:02d},{hour:02d},{minute:02d},{second:02d}\n"
TimeCommand(t) ==
    "SYNC_TIME:" \o Dec(t.year) \o "," \o Pad2(t.month) \o "," \o Pad2(t.day)
        \o "," \o Pad2(t.hour) \o "," \o Pad2(t.minute) \o ","
        \o Pad2(t.second) \o "\n"

(***************************************************************************)
(* Port resolver.                                                          *)
(***************************************************************************)
arduino_identifiers ==
    << "Arduino", "USB-SERIAL", "USB Serial", "CH340", "FTDI", "ttyACM",
       "ttyUSB" >>

\* f"{port.device} {port.description} {port.manufacturer or ''}"
PortText(p) ==
    p.device \o " " \o p.description \o " "
        \o (IF p.manufacturer = None THEN "" ELSE p.manufacturer)

PortInfo(p) == ToUpper(PortText(p))

\* for identifier in arduino_identifiers: if identifier.upper() in port_info
RECURSIVE MatchesFrom(_, _)
MatchesFrom(info, k) ==
    IF k > Len(arduino_identifiers) THEN FALSE
    ELSE IF Contains(info, ToUpper(arduino_identifiers[k])) THEN TRUE
    ELSE MatchesFrom(info, k + 1)

\* for port in ports: ... return port.device; return None
RECURSIVE FindFrom(_, _)
FindFrom(ps, i) ==
    IF i > Len(ps) THEN None
    ELSE IF MatchesFrom(PortInfo(ps[i]), 1) THEN ps[i].device
    ELSE FindFrom(ps, i + 1)

\* The loop keeping the last match instead of returning at the first.
RECURSIVE FindLastFrom(_, _)
FindLastFrom(ps, i) ==
    IF i < 1 THEN None
    ELSE IF MatchesFrom(PortInfo(ps[i]), 1) THEN ps[i].device
    ELSE FindLastFrom(ps, i - 1)

find_last_port(ps) == FindLastFrom(ps, Len(ps))
find_arduino_port(ps) == FindFrom(ps, 1)

Descriptor(d, desc, m) == [device |-> d, description |-> desc, manufacturer |-> m]

\* Descriptors the operating system may report.
Descriptors ==
    { Descriptor("/dev/ttyACM0", "ttyACM0", None),
      Descriptor("COM4", "arduino uno (COM4)", "Arduino LLC"),
      Descriptor("COM3", "USB-SERIAL CH340 (COM3)", "wch.cn"),
      Descriptor("/dev/cu.usb", "serial adapter", ""),
      Descriptor("COM1", "Communications Port (COM1)", "(Standard port types)"),
      Descriptor("/dev/ttyS0", "n/a", None) }

(***************************************************************************)
(* Inputs: command lines, start instants, device output, link faults.      *)
(***************************************************************************)
Timeouts == { 0, MaxTimeout }
Lags == 0..MaxLag

ArgSets ==
    [list_ports : BOOLEAN, port : {None, "/dev/ttyUSB7"}, timeout : Timeouts]

\* What comports() may return to main.
Enumerations ==
    { << >>,
      << Descriptor("/dev/ttyS0", "n/a", None) >>,
      << Descriptor("COM1", "Communications Port (COM1)", "(Standard port types)"),
         Descriptor("/dev/ttyUSB7", "FT232R USB UART", "FTDI") >> }

\* The tool is started shortly before midnight, so that the compensated
\* time carries into the next day, month or year.
StartDays == { Ymd2Ord(2023, 12, 31) }
StartSecond == SecondsPerDay - 4
StartFractions == { 0, TicksPerSecond \div 2 }
StartTicks == { StartSecond * TicksPerSecond + f : f \in StartFractions }

\* Lines the device firmware may emit, as readline() returns them.
DeviceLines ==
    { "TIME_SYNCED:OK\r\n",
      "TIME_SYNCED:ERR\r\n",
      "TIME_SYNCED:ERR_TOKEN\r\n",
      "TIME_SYNCED:BUSY\r\n",
      "WAKE_UP\r\n",
      "RTC:2024-01-01 00:00:00\r\n",
      InvalidByte \o "\n" }

\* A call into pyserial returns, or raises one of these.
Faults == { "SerialException", "OSError" }
Returns == { "ok" } \cup Faults

\* The except clause an exception reaches (lines 151-156).
Handler(e) == IF e = "SerialException" THEN "serial_error" ELSE "unexpected_error"

(***************************************************************************)
(* The wall clock.  During the boundary wait the model follows the clock   *)
(* through HoldSecond; every later second of the wait is identified with   *)
(* that one, so that an arbitrarily long wait stays finite.                *)
(***************************************************************************)
HoldSecond == StartSecond + SettleSeconds + MaxHeldSeconds

Elapse(t, n) == t + n

HeldElapse(t, n) ==
    IF (t + n) \div TicksPerSecond > HoldSecond
    THEN t + n - TicksPerSecond
    ELSE t + n

\* now.microsecond at tick t
Microsecond(t) == (t % TicksPerSecond) * TickUs

(***************************************************************************)
(* sync_precise_time_to_arduino                                            *)
(*                                                                         *)
(* Each action is one statement or one loop iteration.  `clock` is the     *)
(* wall clock when the next statement runs: a sleep, and the loop          *)
(* iterations, let it advance by their nominal duration plus a lag.        *)
(* When the function returns its two deadlines are dropped with the        *)
(* frame; sync_time, line and confirmation keep the values last assigned.  *)
(***************************************************************************)
reads == << sync_time, line, confirmation >>
deadlines == << response_timeout, confirmation_timeout >>
main_vars == << args, ports, port, base, status, listed >>

\* The head of the input buffer is taken out: it was the oldest line.
Taken(n) == IF n > 0 THEN n - 1 ELSE 0

\* Control moves on to statement p inside the function.
Goto(p) == pc' = p /\ UNCHANGED << ser, outcome, result >>

\* Except clauses that print the error and go on to report success.
RaiseSwallowed(e) ==
    /\ pc' = "returned"
    /\ outcome' = Handler(e)
    /\ result' = << TRUE >>
    /\ ser' = ser
    /\ response_timeout' = << >>
    /\ confirmation_timeout' = << >>

\* An exception propagates to the except clauses (lines 151-156): the
\* message is printed and False is returned.  The handlers do not touch ser.
Raise(e) ==
    /\ pc' = "returned"
    /\ outcome' = Handler(e)
    /\ result' = << FALSE >>
    /\ ser' = ser
    /\ response_timeout' = << >>
    /\ confirmation_timeout' = << >>

\* A return that leaves the port open.
ReturnWithoutClose(how, value) ==
    /\ pc' = "returned"
    /\ outcome' = how
    /\ result' = << value >>
    /\ ser' = ser
    /\ response_timeout' = << >>
    /\ confirmation_timeout' = << >>

\* print(...); ser.close(); return value
Return(how, value) ==
    /\ pc' = "returned"
    /\ outcome' = how
    /\ result' = << value >>
    /\ ser' = "closed"
    /\ response_timeout' = << >>
    /\ confirmation_timeout' = << >>

\* line 70: ser = serial.Serial(port, baudrate, timeout=timeout)
Open ==
    /\ pc = "open"
    /\ \E r \in Returns :
        IF r = "ok"
        THEN pc' = "settle" /\ ser' = "open" /\ UNCHANGED << outcome, result, deadlines >>
        ELSE Raise(r)
    /\ UNCHANGED << main_vars, reads, clock, rx, stale, tx, emitted >>

\* line 73: time.sleep(2)
Settle ==
    /\ pc = "settle"
    /\ \E d \in Lags :
        clock' = Elapse(clock, SettleSeconds * TicksPerSecond + d)
    /\ Goto("flush_in")
    /\ UNCHANGED << main_vars, reads, deadlines, rx, stale, tx, emitted >>

\* A first statement that reads the waiting line instead of discarding it.
FlushInputReading ==
    /\ pc = "flush_in"
    /\ IF rx = << >>
       THEN UNCHANGED << rx, stale, line >>
       ELSE /\ rx' = Tail(rx)
            /\ stale' = Taken(stale)
            /\ line' = << Strip(Head(rx)) >>
    /\ Goto("flush_out")
    /\ UNCHANGED << main_vars, sync_time, confirmation, deadlines, clock, tx, emitted >>

\* line 76: ser.flushInput()
FlushInput ==
    /\ pc = "flush_in"
    /\ \E r \in Returns :
        IF r = "ok"
        THEN Goto("flush_out") /\ rx' = << >> /\ stale' = 0 /\ UNCHANGED deadlines
        ELSE Raise(r) /\ UNCHANGED << rx, stale >>
    /\ UNCHANGED << main_vars, reads, clock, tx, emitted >>

\* line 77: ser.flushOutput()
FlushOutput ==
    /\ pc = "flush_out"
    /\ \E r \in Returns :
        IF r = "ok" THEN Goto("poll") /\ UNCHANGED deadlines ELSE Raise(r)
    /\ UNCHANGED << main_vars, reads, clock, rx, stale, tx, emitted >>

\* lines 82-87, 111-112: the outer loop, one iteration
Poll ==
    /\ pc = "poll"
    /\ \E d \in Lags :
        IF Microsecond(clock) >= NearBoundaryUs
        THEN Goto("tight") /\ clock' = HeldElapse(clock, d)
        ELSE Goto("poll") /\ clock' = HeldElapse(clock, PollSleepTicks + d)
    /\ UNCHANGED << main_vars, reads, deadlines, rx, stale, tx, emitted >>

\* lines 89-90: the inner loop, one iteration
Tight ==
    /\ pc = "tight"
    /\ \E d \in Lags :
        IF Microsecond(clock) > BoundaryUs
        THEN Goto("tight") /\ clock' = HeldElapse(clock, TightSleepTicks + d)
        ELSE Goto("sample") /\ clock' = HeldElapse(clock, d)
    /\ UNCHANGED << main_vars, reads, deadlines, rx, stale, tx, emitted >>

\* lines 93-107: sample the clock, add the compensation, format the command
Sample ==
    /\ pc = "sample"
    /\ sync_time' = << Now(base, clock) >>
    /\ IF Compensate(Now(base, clock)) = << >>
       THEN Raise("OverflowError")
       ELSE Goto("write") /\ UNCHANGED deadlines
    /\ UNCHANGED << main_vars, line, confirmation, clock, rx, stale, tx, emitted >>

\* the local time_command of lines 96-100
time_command == TimeCommand(Compensate(sync_time[1])[1])

\* A write that sends the command a second time.
WriteTwice ==
    /\ pc = "write"
    /\ \E r \in Returns, d \in Lags :
        /\ clock' = Elapse(clock, d)
        /\ IF r = "ok"
           THEN /\ Goto("deadline")
                /\ tx' = tx \o << time_command, time_command >>
                /\ UNCHANGED deadlines
           ELSE Raise(r) /\ tx' = tx
    /\ UNCHANGED << main_vars, reads, rx, stale, emitted >>

\* line 109: ser.write(time_command.encode())
Write ==
    /\ pc = "write"
    /\ \E r \in Returns, d \in Lags :
        /\ clock' = Elapse(clock, d)
        /\ IF r = "ok"
           THEN /\ Goto("deadline")
                /\ tx' = Append(tx, time_command)
                /\ UNCHANGED deadlines
           ELSE Raise(r) /\ tx' = tx
    /\ UNCHANGED << main_vars, reads, rx, stale, emitted >>

\* line 115: response_timeout = time.time() + timeout
SetDeadline ==
    /\ pc = "deadline"
    /\ response_timeout' = << Time(clock) + args.timeout * TicksPerSecond >>
    /\ Goto("resp_check")
    /\ UNCHANGED << main_vars, reads, confirmation_timeout, clock, rx, stale, tx, emitted >>

\* A confirmation wait that goes on until a reply arrives.
RespCheckUntilReply ==
    /\ pc = "resp_check"
    /\ \E d \in Lags : clock' = Elapse(clock, d)
    /\ Goto("resp_poll")
    /\ UNCHANGED << main_vars, reads, deadlines, rx, stale, tx, emitted >>

\* lines 117, 147-149: the loop test of the confirmation wait
RespCheck ==
    /\ pc = "resp_check"
    /\ \E d \in Lags : clock' = Elapse(clock, d)
    /\ IF Time(clock) < response_timeout[1]
       THEN Goto("resp_poll") /\ UNCHANGED deadlines
       ELSE Return("timeout", FALSE)
    /\ UNCHANGED << main_vars, reads, rx, stale, tx, emitted >>

\* lines 122-125: how a decoded, stripped line is treated
\* The loop without its filter: every line is taken for a reply.
IgnoresNothing(l) == FALSE
Ignored(l) == ~StartsWith(l, "TIME_SYNCED:")
Accepted(l) == Contains(l, "OK")

\* lines 118-145: the body of the confirmation wait
RespPoll ==
    /\ pc = "resp_poll"
    /\ \E r \in Returns :
        IF r # "ok"
        THEN Raise(r) /\ UNCHANGED << rx, stale, line >>
        ELSE IF Len(rx) = 0
        THEN Goto("resp_check") /\ UNCHANGED << rx, stale, line, deadlines >>
        ELSE /\ rx' = Tail(rx)
             /\ stale' = Taken(stale)
             /\ IF ~Decodable(Head(rx))
                THEN Raise("UnicodeDecodeError") /\ line' = line
                ELSE /\ line' = << Strip(Head(rx)) >>
                     /\ IF Ignored(Strip(Head(rx)))
                        THEN Goto("resp_check") /\ UNCHANGED deadlines
                        ELSE IF Accepted(Strip(Head(rx)))
                        THEN /\ Goto("echo_check")
                             /\ confirmation_timeout' =
                                  << Time(clock) + EchoSeconds * TicksPerSecond >>
                             /\ UNCHANGED response_timeout
                        ELSE Return("device_error", FALSE)
    /\ UNCHANGED << main_vars, sync_time, confirmation, clock, tx, emitted >>

\* line 130: the loop test of the echo wait
EchoCheck ==
    /\ pc = "echo_check"
    /\ \E d \in Lags : clock' = Elapse(clock, d)
    /\ IF Time(clock) < confirmation_timeout[1]
       THEN Goto("echo_poll")
       ELSE Goto("finish")
    /\ UNCHANGED << main_vars, reads, deadlines, rx, stale, tx, emitted >>

\* lines 131-135: the body of the echo wait
EchoPoll ==
    /\ pc = "echo_poll"
    /\ \E r \in Returns :
        IF r # "ok"
        THEN Raise(r) /\ UNCHANGED << rx, stale, confirmation >>
        ELSE IF Len(rx) = 0
        THEN Goto("echo_check") /\ UNCHANGED << rx, stale, confirmation, deadlines >>
        ELSE /\ rx' = Tail(rx)
             /\ stale' = Taken(stale)
             /\ IF ~Decodable(Head(rx))
                THEN Raise("UnicodeDecodeError") /\ confirmation' = confirmation
                ELSE /\ confirmation' = << Strip(Head(rx)) >>
                     /\ UNCHANGED deadlines
                     /\ IF StartsWith(Strip(Head(rx)), "RTC:")
                        THEN Goto("finish")
                        ELSE Goto("echo_check")
    /\ UNCHANGED << main_vars, sync_time, line, clock, tx, emitted >>

\* The end of the echo wait, were a missing RTC: line a failure.
FinishNeedsEcho ==
    /\ pc = "finish"
    /\ IF confirmation # << >> /\ StartsWith(confirmation[1], "RTC:")
       THEN Return("success", TRUE)
       ELSE Return("timeout", FALSE)
    /\ UNCHANGED << main_vars, reads, clock, rx, stale, tx, emitted >>

\* lines 137-141: final_time, ser.close(), return True
Finish ==
    /\ pc = "finish"
    /\ Return("success", TRUE)
    /\ UNCHANGED << main_vars, reads, clock, rx, stale, tx, emitted >>

\* The device firmware emits a line while the port is open and the input
\* buffer has room for it.
DeviceEmit ==
    /\ ser = "open"
    /\ pc \notin { "returned", "exit" }
    /\ Len(rx) < MaxBuffered
    /\ \E l \in DeviceLines : rx' = Append(rx, l)
    /\ stale' = IF tx = << >> THEN stale + 1 ELSE stale
    /\ emitted' = TRUE
    /\ UNCHANGED << main_vars, reads, deadlines, pc, clock, ser, tx, outcome, result >>

(***************************************************************************)
(* main                                                                    *)
(***************************************************************************)
session_vars == << clock, ser, rx, stale, tx, emitted, reads, deadlines, outcome, result >>

\* lines 39-52: what list_serial_ports prints for the enumeration ps
RECURSIVE PortLinesFrom(_, _)
PortLinesFrom(ps, i) ==
    IF i > Len(ps) THEN << >>
    ELSE << "  " \o Dec(i) \o ". " \o ps[i].device \o " - " \o ps[i].description >>
         \o ( IF ps[i].manufacturer \in { None, "" } THEN << >>
              ELSE << "     Manufacturer: " \o ps[i].manufacturer >> )
         \o PortLinesFrom(ps, i + 1)

list_serial_ports(ps) ==
    IF Len(ps) = 0
    THEN << "No serial ports found." >>
    ELSE << "Available serial ports:" >> \o PortLinesFrom(ps, 1)

\* --list-ports, were it to go on to the session with the given port.
ListPortsThenSync ==
    /\ pc = "main"
    /\ args.list_ports
    /\ \E ps \in Enumerations :
        /\ ports' = ps
        /\ listed' = list_serial_ports(ps)
    /\ IF args.port \in { None, "" }
       THEN pc' = "exit" /\ status' = << 0 >> /\ port' = port
       ELSE pc' = "open" /\ status' = status /\ port' = args.port
    /\ UNCHANGED << args, base, session_vars >>

\* lines 190-192: --list-ports
ListPorts ==
    /\ pc = "main"
    /\ args.list_ports
    /\ \E ps \in Enumerations :
        /\ ports' = ps
        /\ listed' = list_serial_ports(ps)
    /\ pc' = "exit"
    /\ status' = << 0 >>
    /\ UNCHANGED << args, port, base, session_vars >>

\* lines 198-199, 211: a port was given
UsePort ==
    /\ pc = "main"
    /\ ~args.list_ports
    /\ args.port \notin { None, "" }
    /\ port' = args.port
    /\ pc' = "open"
    /\ UNCHANGED << args, ports, base, status, listed, session_vars >>

\* lines 199-211: no port was given; comports() returns one of `lists`
AutoDetectFrom(lists) ==
    /\ pc = "main"
    /\ ~args.list_ports
    /\ args.port \in { None, "" }
    /\ \E ps \in lists :
        /\ ports' = ps
        /\ port' = find_arduino_port(ps)
        /\ IF find_arduino_port(ps) \in { None, "" }
           THEN pc' = "exit" /\ status' = << 1 >>
           ELSE pc' = "open" /\ status' = status
    /\ UNCHANGED << args, base, listed, session_vars >>

AutoDetect == AutoDetectFrom(Enumerations)

\* The end of main, were the result of the session not looked at.
ExitIgnoringResult ==
    /\ pc = "returned"
    /\ pc' = "exit"
    /\ status' = << 0 >>
    /\ UNCHANGED << args, ports, port, base, listed, session_vars >>

\* lines 211-217: report and exit
Exit ==
    /\ pc = "returned"
    /\ pc' = "exit"
    /\ status' = IF result[1] THEN << 0 >> ELSE << 1 >>
    /\ UNCHANGED << args, ports, port, base, listed, session_vars >>

(***************************************************************************)
(* The program.                                                            *)
(***************************************************************************)
InitLocals ==
    /\ sync_time = << >>
    /\ response_timeout = << >>
    /\ confirmation_timeout = << >>
    /\ line = << >>
    /\ confirmation = << >>
    /\ outcome = None
    /\ result = << >>
    /\ status = << >>
    /\ listed = << >>

Init ==
    /\ pc = "main"
    /\ args \in ArgSets
    /\ ports = << >>
    /\ port = None
    /\ base \in StartDays
    /\ clock \in StartTicks
    /\ ser = "none"
    /\ rx = << >>
    /\ stale = 0
    /\ tx = << >>
    /\ emitted = FALSE
    /\ InitLocals

Session ==
    \/ Open \/ Settle \/ FlushInput \/ FlushOutput \/ Poll \/ Tight \/ Sample
    \/ Write \/ SetDeadline \/ RespCheck \/ RespPoll \/ EchoCheck \/ EchoPoll
    \/ Finish

Program == ListPorts \/ UsePort \/ AutoDetect \/ Session \/ Exit

Next == Program \/ DeviceEmit

Spec == Init /\ [][Next]_vars

(***************************************************************************)
(* The session under a fair scheduler: the program keeps taking steps,     *)
(* and the wall clock keeps advancing while a wait loop polls it.          *)
(***************************************************************************)
Ticking(A) == A /\ clock' > clock

FairSpec ==
    /\ Spec
    /\ WF_vars(Program)
    /\ SF_vars(Ticking(RespCheck))
    /\ SF_vars(Ticking(EchoCheck))

(***************************************************************************)
(* The port resolver on every enumeration of up to MaxPorts descriptors.   *)
(***************************************************************************)
MaxPorts == 3

PortLists == UNION { [1..n -> Descriptors] : n \in 0..MaxPorts }

DetectInit ==
    /\ Init
    /\ ~args.list_ports
    /\ args.port = None

Detect == AutoDetectFrom(PortLists)

DetectSpec == DetectInit /\ [][Detect]_vars

(***************************************************************************)
(* The time command on sampled instants all over the calendar: lines       *)
(* 93-109 run with the clock at the start of a chosen second.              *)
(***************************************************************************)
SampleYears == { 1, 999, 2000, 2023, 2024, 2100, MAXYEAR }
SampleDays ==
    { Ymd2Ord(y, m, d) : y \in SampleYears, m \in 1..12, d \in {1, 9, 28} }
    \cup { Ymd2Ord(y, m, DaysInMonth(y, m)) : y \in SampleYears, m \in 1..12 }
SampleSeconds ==
    { 0, 9 * 3600 + 5 * 60 + 7, 12 * 3600 + 59 * 60 + 59,
      23 * 3600 + 58 * 60 + 59, SecondsPerDay - 1 }

CmdInit ==
    /\ pc = "sample"
    /\ args \in { a \in ArgSets : ~a.list_ports /\ a.port # None /\ a.timeout = 0 }
    /\ ports = << >>
    /\ port = args.port
    /\ base \in SampleDays
    /\ clock \in { sec * TicksPerSecond : sec \in SampleSeconds }
    /\ ser = "open"
    /\ rx = << >>
    /\ stale = 0
    /\ tx = << >>
    /\ emitted = FALSE
    /\ InitLocals

CmdNext == Sample \/ Write

CmdSpec == CmdInit /\ [][CmdNext]_vars

(***************************************************************************)
(* Vocabulary of the properties.                                           *)
(***************************************************************************)
\* sync_precise_time_to_arduino has returned.
Returned == result # << >>
Faulted == outcome \in { "serial_error", "unexpected_error" }
InEchoWait == pc \in { "echo_check", "echo_poll", "finish" }
LineIs(prefix) == line # << >> /\ StartsWith(line[1], prefix)

\* A step of the confirmation wait that takes a line out of the buffer.
ReadsReply == pc = "resp_poll" /\ rx # << >> /\ rx' = Tail(rx)

\* The text of a command cut at its commas.
RECURSIVE Fields(_)
Fields(s) ==
    IF ~Contains(s, ",") THEN << s >>
    ELSE LET i == CHOOSE k \in 1..Len(s) :
                    /\ SubSeq(s, k, k) = ","
                    /\ ~Contains(SubSeq(s, 1, k - 1), ",")
         IN  << SubSeq(s, 1, i - 1) >> \o Fields(SubSeq(s, i + 1, Len(s)))

IsNumber(s) ==
    /\ Len(s) > 0
    /\ \A i \in 1..Len(s) : Contains(Digits, SubSeq(s, i, i))

DigitValue(c) == (CHOOSE k \in 1..Len(Digits) : SubSeq(Digits, k, k) = c) - 1

RECURSIVE Value(_)
Value(s) ==
    IF Len(s) = 0 THEN 0
    ELSE 10 * Value(SubSeq(s, 1, Len(s) - 1)) + DigitValue(SubSeq(s, Len(s), Len(s)))

\* The six numbers of "SYNC_TIME:<Y>,<M>,<D>,<h>,<m>,<s>\n".
Payload(cmd) == Fields(SubSeq(cmd, Len("SYNC_TIME:") + 1, Len(cmd) - 1))

Encoded(cmd) ==
    LET f == Payload(cmd)
    IN  [year |-> Value(f[1]), month |-> Value(f[2]), day |-> Value(f[3]),
         hour |-> Value(f[4]), minute |-> Value(f[5]), second |-> Value(f[6])]

WholeSeconds(dt) ==
    [year |-> dt.year, month |-> dt.month, day |-> dt.day,
     hour |-> dt.hour, minute |-> dt.minute, second |-> dt.second]

\* The second after dt on the calendar, by carrying from field to field.
NextSecond(dt) ==
    IF dt.second < 59 THEN [dt EXCEPT !.second = @ + 1]
    ELSE IF dt.minute < 59 THEN [dt EXCEPT !.second = 0, !.minute = @ + 1]
    ELSE IF dt.hour < 23
         THEN [dt EXCEPT !.second = 0, !.minute = 0, !.hour = @ + 1]
    ELSE IF dt.day < DaysInMonth(dt.year, dt.month)
         THEN [dt EXCEPT !.second = 0, !.minute = 0, !.hour = 0, !.day = @ + 1]
    ELSE IF dt.month < 12
         THEN [dt EXCEPT !.second = 0, !.minute = 0, !.hour = 0, !.day = 1,
                         !.month = @ + 1]
    ELSE [dt EXCEPT !.second = 0, !.minute = 0, !.hour = 0, !.day = 1,
                    !.month = 1, !.year = @ + 1]

\* Whether the combined text of p contains identifier id, whatever the case.
Mentions(p, id) == Contains(ToUpper(PortText(p)), ToUpper(id))
IsArduino(p) == \E k \in 1..Len(arduino_identifiers) : Mentions(p, arduino_identifiers[k])

(***************************************************************************)
(* C1.  Whenever the serial connection was opened, it is closed by the     *)
(* time the session has returned, on every exit path (success, device      *)
(* error, timeout, exception).  The except clauses return without          *)
(* closing, so this fails.                                                 *)
(***************************************************************************)
C1_ClosedOnEveryExit == Returned => ser # "open"

(***************************************************************************)
(* C2.  A reply beginning TIME_SYNCED:ERR, whatever follows the prefix,    *)
(* makes the session return False and never enter the RTC echo wait.       *)
(* The test `'OK' in line` accepts TIME_SYNCED:ERR_TOKEN, so this fails.   *)
(***************************************************************************)
C2_ErrAlwaysFails ==
    LineIs("TIME_SYNCED:ERR") =>
        /\ ~InEchoWait
        /\ Returned => result = << FALSE >>

C5_EchoNeverChangesOutcome ==
    (LineIs("TIME_SYNCED:OK") /\ Returned) => result = << TRUE >>

(***************************************************************************)
(* C6.  The sample sync_time has a sub-second fraction strictly below      *)
(* 0.1 s.  The inner loop ends on a reading of exactly 100000 us, and the  *)
(* sample is a later reading of the clock, so this fails.                  *)
(***************************************************************************)
C6_SampleBelowTenth ==
    sync_time # << >> => sync_time[1].microsecond < BoundaryUs

(***************************************************************************)
(* C7.  The timestamp encoded in a written command is the sample plus one  *)
(* second, cut to whole seconds, with the carry taken through second,      *)
(* minute, hour, day, month and year.                                      *)
(***************************************************************************)
C7_CommandIsNextSecond ==
    tx # << >> => Encoded(tx[1]) = NextSecond(WholeSeconds(sync_time[1]))

\* 23:59:59 on 31 December 2023 was sampled and 1 January 2024 was sent.
C7_Witness ==
    /\ tx = << "SYNC_TIME:2024,01,01,00,00,00\n" >>
    /\ sync_time # << >>
    /\ sync_time[1].year = 2023
    /\ sync_time[1].second = 59

(***************************************************************************)
(* C8.  A written command is SYNC_TIME: followed by year, month, day,      *)
(* hour, minute and second of the compensated time as decimal numbers      *)
(* separated by commas and ended by one newline; month, day, hour, minute  *)
(* and second have exactly two digits, the year is not padded.             *)
(***************************************************************************)
C8_CommandFormat ==
    tx # << >> =>
        LET cmd == tx[1]
            f == Payload(cmd)
            t == Compensate(sync_time[1])[1]
        IN  /\ StartsWith(cmd, "SYNC_TIME:")
            /\ SubSeq(cmd, Len(cmd), Len(cmd)) = "\n"
            /\ ~Contains(SubSeq(cmd, 1, Len(cmd) - 1), "\n")
            /\ Len(f) = 6
            /\ \A i \in 1..6 : IsNumber(f[i])
            /\ \A i \in 2..6 : Len(f[i]) = 2
            /\ SubSeq(f[1], 1, 1) # "0"
            /\ << Value(f[1]), Value(f[2]), Value(f[3]), Value(f[4]), Value(f[5]),
                  Value(f[6]) >>
               = << t.year, t.month, t.day, t.hour, t.minute, t.second >>

\* A command with a one-digit year and one-digit month, day, hour, minute
\* and second.
C8_Witness == tx = << "SYNC_TIME:1,01,01,09,05,08\n" >>

C10_FirstMatchWins ==
    pc # "main" =>
        IF \E i \in 1..Len(ports) : IsArduino(ports[i])
        THEN LET first == CHOOSE i \in 1..Len(ports) :
                              /\ IsArduino(ports[i])
                              /\ \A j \in 1..(i - 1) : ~IsArduino(ports[j])
             IN  port = ports[first].device
        ELSE port = None

\* Two ports match, after one that does not; the first match is returned.
C10_Witness ==
    /\ pc # "main"
    /\ Len(ports) = 3
    /\ ~IsArduino(ports[1])
    /\ ports[2].device = "COM4"
    /\ ports[3].device = "/dev/ttyACM0"
    /\ port = "COM4"

(***************************************************************************)
(* C11.  The process exit status is 0 exactly when --list-ports was given  *)
(* or the session returned True, and 1 exactly when no port was given and  *)
(* auto-detection found none, or the session returned False.               *)
(***************************************************************************)
NoneDetected ==
    /\ args.port \in { None, "" }
    /\ \A i \in 1..Len(ports) : ~IsArduino(ports[i])

C11_ExitStatus ==
    /\ (pc = "exit") <=> (status # << >>)
    /\ status # << >> =>
        /\ status \in { << 0 >>, << 1 >> }
        /\ (status = << 0 >>) <=> (args.list_ports \/ result = << TRUE >>)
        /\ (status = << 1 >>) <=>
              /\ ~args.list_ports
              /\ result = << FALSE >> \/ NoneDetected

\* An auto-detected port, a successful session, exit status 0.
C11_Witness ==
    /\ pc = "exit"
    /\ args.port = None
    /\ port = "/dev/ttyUSB7"
    /\ result = << TRUE >>
    /\ status = << 0 >>

\* No port given and none detected: exit status 1 without a session.
C11_WitnessNoPort ==
    /\ pc = "exit"
    /\ ~args.list_ports
    /\ NoneDetected
    /\ result = << >>
    /\ status = << 1 >>

(***************************************************************************)
(* C12.  With --list-ports the tool never runs auto-detection and never    *)
(* opens a serial connection, whatever --port says and whatever ports      *)
(* exist: it prints the enumeration and exits with status 0, and with no   *)
(* port at all it prints "No serial ports found.".                         *)
(***************************************************************************)
C12_ListPortsOnly ==
    args.list_ports =>
        /\ pc \in { "main", "exit" }
        /\ ser = "none"
        /\ port = None
        /\ tx = << >>
        /\ result = << >>
        /\ pc = "exit" =>
            /\ status = << 0 >>
            /\ (ports = << >>) <=> (listed = << "No serial ports found." >>)
            /\ ports # << >> =>
                /\ listed[1] = "Available serial ports:"
                /\ \A i \in 1..Len(ports) :
                      \E k \in 2..Len(listed) : Contains(listed[k], ports[i].device)

\* --list-ports together with --port, and no serial port on the host.
C12_Witness ==
    /\ pc = "exit"
    /\ args.list_ports
    /\ args.port = "/dev/ttyUSB7"
    /\ ports = << >>
    /\ listed = << "No serial ports found." >>

\* --list-ports on a host with an Arduino: listed, not detected, not opened.
C12_WitnessListing ==
    /\ pc = "exit"
    /\ args.list_ports
    /\ listed = << "Available serial ports:",
                   "  1. COM1 - Communications Port (COM1)",
                   "     Manufacturer: (Standard port types)",
                   "  2. /dev/ttyUSB7 - FT232R USB UART",
                   "     Manufacturer: FTDI" >>
    /\ port = None
    /\ ser = "none"

(***************************************************************************)
(* C13.  A failure of the serial link, or any other exception raised in    *)
(* the session (at open, flush, write or read), is caught inside           *)
(* sync_precise_time_to_arduino and turned into the result False: the      *)
(* function returns, never with True, and main exits with status 1.        *)
(***************************************************************************)
C13_ExceptionsBecomeFalse ==
    Faulted =>
        /\ pc \in { "returned", "exit" }
        /\ result = << FALSE >>
        /\ (pc = "exit") <=> (status = << 1 >>)

\* An undecodable reply after the command was written: status 1.
C13_Witness ==
    /\ pc = "exit"
    /\ outcome = "unexpected_error"
    /\ tx # << >>
    /\ line = << >>
    /\ status = << 1 >>

\* The port cannot be opened: status 1.
C13_WitnessOpen ==
    /\ pc = "exit"
    /\ outcome = "serial_error"
    /\ ser = "none"
    /\ status = << 1 >>

(***************************************************************************)
(* C14.  One invocation opens at most one serial connection and writes at  *)
(* most one SYNC_TIME command: the port is opened only while none was      *)
(* opened yet, and once the session has returned (timeout, device error,   *)
(* exception or success) nothing is opened or written any more; main       *)
(* only exits.                                                             *)
(***************************************************************************)
C14_OneAttempt ==
    /\ []( /\ Len(tx) <= 1
           /\ \A i \in 1..Len(tx) : StartsWith(tx[i], "SYNC_TIME:")
           /\ pc = "open" => (ser = "none" /\ tx = << >> /\ ~Returned) )
    /\ [][ (ser' = "open" /\ ser # "open") => (pc = "open" /\ ser = "none") ]_vars
    /\ [][ tx' # tx => (pc = "write" /\ tx = << >> /\ ~Returned) ]_vars
    /\ [][ Returned => (pc = "returned" /\ pc' = "exit" /\ UNCHANGED << ser, tx >>) ]_vars

\* The window ran out after one command; the tool exited without retrying.
C14_Witness ==
    /\ pc = "exit"
    /\ outcome = "timeout"
    /\ Len(tx) = 1
    /\ ser = "closed"
    /\ status = << 1 >>

(***************************************************************************)
(* C15.  Every session terminates: whatever the device does and however    *)
(* the host clock advances between polls, sleeps that overshoot included,  *)
(* the boundary wait, the confirmation wait and the echo wait each end     *)
(* and the function returns.  The boundary wait has no deadline and ends   *)
(* only if a poll finds the clock in the last tenth of a second, so this   *)
(* fails.                                                                  *)
(***************************************************************************)
InBoundaryWait == pc \in { "poll", "tight" }
InConfirmationWait == pc \in { "resp_check", "resp_poll" }

C15_EverySessionTerminates ==
    /\ (pc = "open") ~> Returned
    /\ InBoundaryWait ~> ~InBoundaryWait
    /\ InConfirmationWait ~> ~InConfirmationWait
    /\ InEchoWait ~> ~InEchoWait

(***************************************************************************)
(* C16.  The SYNC_TIME command is written before any line is read from     *)
(* the device, whether or not the device has sent WAKE_UP or anything      *)
(* else: the session goes through open, settle, flush, boundary wait,      *)
(* write and only then the reads, never backwards; until the write a       *)
(* line leaves the input buffer only by being flushed.                     *)
(***************************************************************************)
Stage(p) ==
    CASE p = "main" -> 0
      [] p = "open" -> 1
      [] p = "settle" -> 2
      [] p \in { "flush_in", "flush_out" } -> 3
      [] p \in { "poll", "tight", "sample" } -> 4
      [] p = "write" -> 5
      [] p \in { "deadline", "resp_check", "resp_poll",
                 "echo_check", "echo_poll", "finish" } -> 6
      [] p = "returned" -> 7
      [] p = "exit" -> 8

C16_WriteBeforeReads ==
    /\ []( /\ (line # << >> \/ confirmation # << >>) => Len(tx) = 1
           /\ Stage(pc) = 6 => Len(tx) = 1
           /\ (Stage(pc) \in 1..5) => (tx = << >> /\ ~Returned) )
    /\ [][ Stage(pc') >= Stage(pc) ]_vars
    /\ [][ (pc' # pc /\ Stage(pc') \in 2..6) => Stage(pc') - Stage(pc) \in { 0, 1 } ]_vars
    /\ [][ Len(rx') < Len(rx) => (pc = "flush_in" \/ Stage(pc) = 6) ]_vars

\* The command has just been written while a WAKE_UP line waits unread.
C16_Witness ==
    /\ pc = "deadline"
    /\ Len(tx) = 1
    /\ rx = << "WAKE_UP\r\n" >>
    /\ line = << >>

(***************************************************************************)
(* C17.  The session returns success only because of a TIME_SYNCED: line   *)
(* that the device emitted after the command was written: a line emitted   *)
(* after the input flush but before the write never makes the session      *)
(* report success.  Nothing empties the buffer between the flush and the   *)
(* first read, so this fails.                                              *)
(***************************************************************************)
AcceptsReply == pc = "resp_poll" /\ pc' = "echo_check"

C17_SuccessFromFreshReply ==
    /\ []( result = << TRUE >> => LineIs("TIME_SYNCED:") )
    /\ [][ AcceptsReply => stale = 0 ]_vars

(***************************************************************************)
(* C18.  The confirmation deadline is set once, after the command is       *)
(* written, to the time of that moment plus the configured timeout, and    *)
(* no received line extends it.  A read is started only by an iteration    *)
(* whose loop test found the deadline not yet passed; a test that finds    *)
(* it passed ends the session with the timeout failure, so a stream of     *)
(* lines that are not replies cannot keep the session in the wait.  With   *)
(* timeout 0 the session times out without reading a line.                 *)
(***************************************************************************)
DeadlineSet ==
    /\ pc = "deadline"
    /\ Len(tx) = 1
    /\ response_timeout = << >>
    /\ response_timeout' = << Time(clock) + args.timeout * TicksPerSecond >>

DeadlineDropped == response_timeout' = << >> /\ pc' = "returned"

C18_DeadlineIsFixed ==
    /\ [][ response_timeout' # response_timeout => (DeadlineSet \/ DeadlineDropped) ]_vars
    /\ [][ pc' = "resp_poll" =>
              (pc \in { "resp_check", "resp_poll" } /\ response_timeout # << >>) ]_vars
    /\ [][ (pc = "resp_check" /\ pc' = "resp_poll") =>
              Time(clock) < response_timeout[1] ]_vars
    /\ [][ (pc = "resp_check" /\ pc' # pc /\ Time(clock) >= response_timeout[1]) =>
              (pc' = "returned" /\ outcome' = "timeout" /\ result' = << FALSE >>) ]_vars
    /\ [][ (InConfirmationWait /\ Len(rx') < Len(rx)) => pc = "resp_poll" ]_vars
    /\ []( args.timeout = 0 =>
             /\ line = << >>
             /\ pc \notin { "resp_poll", "echo_check", "echo_poll", "finish" }
             /\ (Returned /\ ~Faulted) => outcome = "timeout" )
    /\ InConfirmationWait ~> ~InConfirmationWait

\* The window ran out although the device kept sending WAKE_UP lines: one
\* was read and ignored, another is still waiting.
C18_Witness ==
    /\ pc = "returned"
    /\ outcome = "timeout"
    /\ args.timeout = MaxTimeout
    /\ line = << "WAKE_UP" >>
    /\ rx = << "WAKE_UP\r\n" >>

\* Timeout 0 with a reply already waiting: the timeout failure, nothing read.
C18_WitnessZero ==
    /\ pc = "returned"
    /\ outcome = "timeout"
    /\ args.timeout = 0
    /\ rx = << "TIME_SYNCED:OK\r\n" >>
    /\ line = << >>

=============================================================================
